---- MODULE Spec2Model ----
(***************************************************************************)
(* Model of the "API de Almacen" service (api.py): the productos table,    *)
(* the pydantic request models, and the five handlers of /productos.       *)
(*                                                                         *)
(* Handlers are plain `def` functions, so the server runs each request in  *)
(* a worker thread; a handler is split at its database round trips         *)
(* (db.get, db.commit, db.refresh), which is where requests interleave.    *)
(* The store is the PostgreSQL database named by DBSettings.database_url:  *)
(* statements are atomic, the id comes from a sequence, NOT NULL and       *)
(* VARCHAR(n) are enforced by the server.                                  *)
(***************************************************************************)
EXTENDS Integers, Sequences, FiniteSets, Bags, TLC

\* ---------------------------------------------------------------- bounds
NReq == 2          \* requests in flight at the same time (worker threads)
MaxId == 2         \* values the id sequence hands out in one run
MaxOps == 4        \* requests received in one run

Ids == 1..MaxId

\* ----------------------------------------------------------- JSON values
JNull == [t |-> "null"]
JStr(s) == [t |-> "str", v |-> s]
JNum(n) == [t |-> "num", v |-> n]
JArr == [t |-> "arr"]

RECURSIVE Rep(_, _)
Rep(s, n) == IF n = 0 THEN ""
             ELSE LET h == Rep(s, n \div 2)
                  IN  IF n % 2 = 1 THEN h \o h \o s ELSE h \o h

Fields == {"nombre", "descripcion", "precio", "stock", "categoria"}

\* ------------------------------------------- pydantic models (validation)
NombreMax == 100
DescripcionMax == 350
CategoriaMax == 50

ValidNombre(v) == v.t = "str" /\ Len(v.v) >= 1 /\ Len(v.v) <= NombreMax
ValidDescripcion(v) == v.t = "str" /\ Len(v.v) >= 1 /\ Len(v.v) <= DescripcionMax
ValidPrecioGe(v) == v.t = "num" /\ v.v >= 0
ValidPrecio(v) == v.t = "num" /\ v.v > 0
ValidStock(v) == v.t = "num" /\ v.v >= 0
ValidCategoria(v) == v.t \in {"null", "str"}

\* ProductoBase: the constraint of one field
FieldOk(f, v) ==
    CASE f = "nombre" -> ValidNombre(v)
      [] f = "descripcion" -> ValidDescripcion(v)
      [] f = "precio" -> ValidPrecio(v)
      [] f = "stock" -> ValidStock(v)
      [] f = "categoria" -> ValidCategoria(v)

Required == {"nombre", "descripcion", "precio", "stock"}

\* ProductoCreate: the four Field(...) are required, categoria defaults to None
ValidCreate(b) == /\ Required \subseteq DOMAIN b
                  /\ \A f \in DOMAIN b : FieldOk(f, b[f])

\* ProductoUpdate: every field is Optional[...] = Field(None, <same constraint>)
ValidUpdate(b) == \A f \in DOMAIN b : b[f].t = "null" \/ FieldOk(f, b[f])

\* producto.model_dump(): every field, unset ones at their default
CreateDump(b) == [f \in Fields |-> IF f \in DOMAIN b THEN b[f] ELSE JNull]

\* producto_update.model_dump(exclude_unset=True): the fields the body carries
UpdateDataExcludeNone(b) == [f \in {g \in DOMAIN b : b[g].t # "null"} |-> b[f]]
UpdateData(b) == [f \in DOMAIN b |-> b[f]]

\* ------------------------------------------------ table productos (schema)
NotNullCols == {"nombre", "descripcion", "precio", "stock"}
ColMax(f) == CASE f = "nombre" -> NombreMax
               [] f = "descripcion" -> DescripcionMax
               [] f = "categoria" -> CategoriaMax

\* what the server accepts in one column: NOT NULL and VARCHAR(n)
ColumnOk(f, v) == /\ (v.t = "null" => f \notin NotNullCols)
                  /\ (v.t = "str" => Len(v.v) <= ColMax(f))

Row(i, vals) == [id |-> i, nombre |-> vals["nombre"],
                 descripcion |-> vals["descripcion"], precio |-> vals["precio"],
                 stock |-> vals["stock"], categoria |-> vals["categoria"]]

None == [id |-> 0]

\* select(Producto).order_by(Producto.id)
Min(S) == CHOOSE m \in S : \A n \in S : m <= n
Max(S) == CHOOSE m \in S : \A n \in S : m >= n
RECURSIVE OrderByIdDesc(_, _)
OrderByIdDesc(t, S) == IF S = {} THEN <<>>
                       ELSE <<t[Max(S)]>> \o OrderByIdDesc(t, S \ {Max(S)})
RECURSIVE OrderById(_, _)
OrderById(t, S) == IF S = {} THEN <<>>
                   ELSE <<t[Min(S)]>> \o OrderById(t, S \ {Min(S)})

\* db.get(Producto, producto_id)
Get(t, i) == IF i \in DOMAIN t THEN t[i] ELSE None

\* ------------------------------------------------------- request inputs
LongNombre == Rep("n", NombreMax + 1)
LongDescripcion == Rep("d", DescripcionMax + 1)
LongCategoria == Rep("c", CategoriaMax + 1)

Monitor == [nombre |-> JStr("Monitor"), descripcion |-> JStr("4K display"),
            precio |-> JNum(399), stock |-> JNum(75),
            categoria |-> JStr("Electronics")]
Cable == [nombre |-> JStr("Cable"), descripcion |-> JStr("HDMI"),
          precio |-> JNum(5), stock |-> JNum(0)]

PostBodies ==
    { Monitor, Cable,
      [Monitor EXCEPT !.categoria = JStr(LongCategoria)],
      [Monitor EXCEPT !.precio = JNum(0)],
      [Monitor EXCEPT !.precio = JNum(-1)],
      [Monitor EXCEPT !.stock = JNum(-1)],
      [Monitor EXCEPT !.nombre = JStr(LongNombre)],
      [Monitor EXCEPT !.descripcion = JNull],
      [Monitor EXCEPT !.stock = JArr],
      [descripcion |-> JStr("HDMI"), precio |-> JNum(5), stock |-> JNum(0)] }

PutBodies ==
    { [stock |-> JNum(10)],
      [stock |-> JNum(75)],
      [nombre |-> JNull, stock |-> JNum(10)],
      [categoria |-> JNull],
      <<>>,
      [precio |-> JNum(0)],
      [stock |-> JNum(-1)],
      [nombre |-> JStr("")],
      [descripcion |-> JStr(LongDescripcion)] }

\* ------------------------------------------------------------------ state
VARIABLES
    db,        \* table productos: id -> row
    seq,       \* next value of the id sequence (autoincrement)
    reqs,      \* the requests in flight (a bag): for each one where its
               \* handler stands (pc), its path id and body, the row its
               \* session loaded (obj), whether it has changed the table
               \* (wrote), whether its commit stored what its body carries
               \* (stored), whether it came after a 204 on its id (late)
    sessions,  \* database sessions that are open
    out,       \* the response sent by the latest step, with its request
    returned,  \* ids returned by a POST so far
    deleted,   \* ids a DELETE has answered 204 for so far
    ops        \* requests received so far

vars == <<db, seq, reqs, sessions, out, returned, deleted, ops>>

NoOut == [status |-> 0]

Init == /\ db = <<>>
        /\ seq = 1
        /\ reqs = EmptyBag
        /\ sessions = 0
        /\ out = NoOut
        /\ returned = {}
        /\ deleted = {}
        /\ ops = 0

InFlight == BagToSet(reqs)
Quiet == reqs = EmptyBag

\* a request can be received: a worker thread is free
Free == BagCardinality(reqs) < NReq /\ ops < MaxOps

\* a request as its handler first sees it
Request(i, b) == [pc |-> "start", id |-> i, body |-> b, obj |-> None,
                  wrote |-> FALSE, stored |-> FALSE, late |-> i \in deleted]

\* get_db_session: `with Session(db_engine) as session: yield session`;
\* n sessions are entered and m are left
Sessions(n, m) == sessions' = sessions + n - m

\* The request q ends with `status` and body `resp`; leaving the `with` block
\* of get_db_session closes its session on every path.
ReplyLeak(q, op, status, resp) ==
    /\ out' = [op |-> op, id |-> q.id, body |-> q.body, status |-> status,
               resp |-> resp, prior |-> q.obj, wrote |-> q.wrote,
               stored |-> q.stored, late |-> q.late]
    /\ Sessions(IF q.pc = "start" THEN 1 ELSE 0, IF status >= 500 THEN 0 ELSE 1)
    /\ ops' = IF q.pc = "start" THEN ops + 1 ELSE ops
Reply(q, op, status, resp) ==
    /\ out' = [op |-> op, id |-> q.id, body |-> q.body, status |-> status,
               resp |-> resp, prior |-> q.obj, wrote |-> q.wrote,
               stored |-> q.stored, late |-> q.late]
    /\ Sessions(IF q.pc = "start" THEN 1 ELSE 0, 1)
    /\ ops' = IF q.pc = "start" THEN ops + 1 ELSE ops

\* the request q leaves the requests in flight
Leave(q) == reqs' = IF q.pc = "start" THEN reqs ELSE reqs (-) SetToBag({q})

\* The handler of request q stops before its next database round trip, as q2
Goto(q, q2) ==
    /\ reqs' = (IF q.pc = "start" THEN reqs ELSE reqs (-) SetToBag({q}))
                 (+) SetToBag({q2})
    /\ Sessions(IF q.pc = "start" THEN 1 ELSE 0, 0)
    /\ ops' = IF q.pc = "start" THEN ops + 1 ELSE ops
    /\ out' = NoOut

\* ------------------------------------------------- POST /productos (201)
\* the sequence behind the autoincrement primary key
NextIdReuse(t, s) == IF DOMAIN t = {} THEN 1 ELSE Max(DOMAIN t) + 1
NextId(t, s) == s

\* The body is validated against ProductoCreate before crear_producto runs;
\* db_producto = Producto(**producto.model_dump()); db.add(db_producto);
\* db.commit(): INSERT INTO productos ... RETURNING id; COMMIT
crear_producto ==
    /\ Free
    /\ seq <= MaxId
    /\ \E b \in PostBodies :
         LET q == Request(0, b)
             i == NextId(db, seq)
             row == Row(i, CreateDump(b))
         IN  IF ~ValidCreate(b)
             THEN /\ Reply(q, "POST", 422, None) /\ Leave(q)
                  /\ UNCHANGED <<db, seq>>
             ELSE /\ seq' = seq + 1
                  /\ IF \A f \in Fields : ColumnOk(f, row[f])
                     THEN /\ db' = [j \in DOMAIN db \cup {i} |->
                                      IF j = i THEN row ELSE db[j]]
                          /\ Goto(q, [q EXCEPT !.pc = "crear_refresh",
                                               !.obj = [id |-> i],
                                               !.wrote = TRUE])
                     ELSE /\ db' = db
                          /\ Reply(q, "POST", 500, None) /\ Leave(q)
    /\ UNCHANGED <<returned, deleted>>

\* db.refresh(db_producto); return db_producto
crear_refresh(q) ==
    /\ q.pc = "crear_refresh"
    /\ LET i == q.obj.id IN
       IF i \in DOMAIN db
       THEN /\ Reply(q, "POST", 201, db[i])
            /\ returned' = returned \cup {i}
       ELSE /\ Reply(q, "POST", 500, None)
            /\ returned' = returned
    /\ Leave(q)
    /\ UNCHANGED <<db, seq, deleted>>

\* ------------------------------------------------------- GET /productos
obtener_productos ==
    /\ Free
    /\ LET q == Request(0, <<>>) IN
       Reply(q, "LIST", 200, OrderById(db, DOMAIN db)) /\ Leave(q)
    /\ UNCHANGED <<db, seq, returned, deleted>>

\* ------------------------------------------ GET /productos/{producto_id}
obtener_producto ==
    /\ Free
    /\ \E i \in Ids :
         LET q == Request(i, <<>>)
             row == Get(db, i)
         IN  /\ Reply(q, "GET", IF row = None THEN 404 ELSE 200, row)
             /\ Leave(q)
    /\ UNCHANGED <<db, seq, returned, deleted>>

\* ------------------------------------------ PUT /productos/{producto_id}
\* The body is validated against ProductoUpdate before the handler runs;
\* db_producto = db.get(Producto, producto_id); 404 when there is none
actualizar_producto ==
    /\ Free
    /\ \E i \in Ids, b \in PutBodies :
         LET q == Request(i, b)
             row == Get(db, i)
         IN  IF ~ValidUpdate(b)
             THEN Reply(q, "PUT", 422, None) /\ Leave(q)
             ELSE IF row = None
             THEN Reply(q, "PUT", 404, None) /\ Leave(q)
             ELSE Goto(q, [q EXCEPT !.pc = "actualizar_commit", !.obj = row])
    /\ UNCHANGED <<db, seq, returned, deleted>>

\* The unit of work of db.commit(): the columns of the UPDATE are the
\* attributes whose value differs from the one loaded
Changed(old, upd) == {f \in DOMAIN upd : upd[f] # old[f]}

\* UPDATE productos SET <changed> WHERE id = i; COMMIT
\* err: "stale" when no row matches, "constraint" when the server refuses
\* a value (the statement then changes nothing)
FlushUpdatePartial(t, i, old, upd) ==
    LET ch == Changed(old, upd)
        good == {f \in ch : ColumnOk(f, upd[f])}
    IN  IF ch = {} THEN [err |-> "none", t |-> t]
        ELSE IF i \notin DOMAIN t THEN [err |-> "stale", t |-> t]
        ELSE [err |-> IF good = ch THEN "none" ELSE "constraint",
              t |-> [t EXCEPT ![i] = [g \in DOMAIN t[i] |->
                                IF g \in good THEN upd[g] ELSE t[i][g]]]]
FlushUpdate(t, i, old, upd) ==
    LET ch == Changed(old, upd)
    IN  IF ch = {} THEN [err |-> "none", t |-> t]
        ELSE IF i \notin DOMAIN t THEN [err |-> "stale", t |-> t]
        ELSE IF \E f \in ch : ~ColumnOk(f, upd[f])
             THEN [err |-> "constraint", t |-> t]
        ELSE [err |-> "none",
              t |-> [t EXCEPT ![i] = [g \in DOMAIN t[i] |->
                                IF g \in ch THEN upd[g] ELSE t[i][g]]]]

\* the table holds, in row i, every value that upd carries
Stored(t, i, upd) == i \in DOMAIN t /\ \A f \in DOMAIN upd : t[i][f] = upd[f]

\* update_data = model_dump(exclude_unset=True); setattr(...) for each item;
\* db.add(db_producto); db.commit()
actualizar_commit(q) ==
    /\ q.pc = "actualizar_commit"
    /\ LET upd == UpdateData(q.body)
           res == FlushUpdate(db, q.id, q.obj, upd)
           q2 == [q EXCEPT !.pc = "actualizar_refresh", !.wrote = res.t # db,
                           !.stored = Stored(res.t, q.id, upd)]
       IN
       /\ db' = res.t
       /\ IF res.err = "none"
          THEN Goto(q, q2)
          ELSE Reply(q2, "PUT", 500, None) /\ Leave(q)
    /\ UNCHANGED <<seq, returned, deleted>>

\* db.refresh(db_producto); return db_producto
actualizar_refresh(q) ==
    /\ q.pc = "actualizar_refresh"
    /\ IF q.id \in DOMAIN db
       THEN Reply(q, "PUT", 200, db[q.id])
       ELSE Reply(q, "PUT", 500, None)
    /\ Leave(q)
    /\ UNCHANGED <<db, seq, returned, deleted>>

\* --------------------------------------- DELETE /productos/{producto_id}
\* db_producto = db.get(Producto, producto_id); 404 when there is none
\* (of the row loaded, the DELETE uses the primary key alone)
eliminar_producto ==
    /\ Free
    /\ \E i \in Ids :
         LET q == Request(i, <<>>)
             row == Get(db, i)
         IN  IF row = None
             THEN Reply(q, "DELETE", 404, None) /\ Leave(q)
             ELSE Goto(q, [q EXCEPT !.pc = "eliminar_commit"])
    /\ UNCHANGED <<db, seq, returned, deleted>>

\* db.delete(db_producto); db.commit(): DELETE FROM productos WHERE id = i;
\* a DELETE that matches no row is only warned about by the unit of work
eliminar_commit(q) ==
    /\ q.pc = "eliminar_commit"
    /\ db' = [j \in DOMAIN db \ {q.id} |-> db[j]]
    /\ Reply([q EXCEPT !.wrote = q.id \in DOMAIN db], "DELETE", 204, None)
    /\ Leave(q)
    /\ deleted' = deleted \cup {q.id}
    /\ UNCHANGED <<seq, returned>>

\* ---------------------------------------------------------- specifications
\* requests in worker threads, interleaved at their database round trips
Next ==
    \/ crear_producto
    \/ obtener_productos
    \/ obtener_producto
    \/ actualizar_producto
    \/ eliminar_producto
    \/ \E q \in InFlight : crear_refresh(q)
    \/ \E q \in InFlight : actualizar_commit(q)
    \/ \E q \in InFlight : actualizar_refresh(q)
    \/ \E q \in InFlight : eliminar_commit(q)

Spec == Init /\ [][Next]_vars

\* requests served one at a time: a request starts when none is in flight
SeqNext ==
    \/ (Quiet /\ crear_producto)
    \/ (Quiet /\ obtener_productos)
    \/ (Quiet /\ obtener_producto)
    \/ (Quiet /\ actualizar_producto)
    \/ (Quiet /\ eliminar_producto)
    \/ \E q \in InFlight : crear_refresh(q)
    \/ \E q \in InFlight : actualizar_commit(q)
    \/ \E q \in InFlight : actualizar_refresh(q)
    \/ \E q \in InFlight : eliminar_commit(q)

SeqSpec == Init /\ [][SeqNext]_vars

\* ------------------------------------------------------------ properties
Emitted == out.status # 0

\* C1 (requests served one at a time): a PUT answered 200 returns and stores
\* a row in which every field the body carries has the value of the body,
\* and the id and every field the body omits have the value the row had
\* when the request read it.
C1_PartialUpdate ==
    (Emitted /\ out.op = "PUT" /\ out.status = 200) =>
        /\ out.resp.id = out.id
        /\ out.resp.id = out.prior.id
        /\ \A f \in Fields :
             out.resp[f] = IF f \in DOMAIN out.body THEN out.body[f]
                           ELSE out.prior[f]
        /\ out.id \in DOMAIN db /\ db[out.id] = out.resp

C1_Witness ==
    /\ Emitted /\ out.op = "PUT" /\ out.status = 200
    /\ out.body = [stock |-> JNum(10)]
    /\ out.prior.stock = JNum(75)
    /\ out.resp.stock = JNum(10)
    /\ out.resp.nombre = JStr("Monitor")

\* C2: in every reachable state every stored row has precio > 0, stock >= 0
\* and a nombre and a descripcion that are non-empty strings.
C2_StoredRowsValid ==
    \A i \in DOMAIN db :
        /\ db[i].precio.t = "num" /\ db[i].precio.v > 0
        /\ db[i].stock.t = "num" /\ db[i].stock.v >= 0
        /\ db[i].nombre.t = "str" /\ Len(db[i].nombre.v) >= 1
        /\ db[i].descripcion.t = "str" /\ Len(db[i].descripcion.v) >= 1

C2_Witness ==
    /\ Emitted /\ out.op = "PUT" /\ out.status = 500
    /\ "nombre" \in DOMAIN out.body /\ out.body.nombre = JNull
    /\ out.id \in DOMAIN db
    /\ db[out.id].nombre = JStr("Monitor")

\* C3: a PUT body that carries, for some field, a value POST would reject
\* for that field is answered 422 and its handler never gets to a persistence
\* call.
C3_UpdateValidatedAsCreate ==
    /\ \A q \in InFlight :
         q.pc \in {"actualizar_commit", "actualizar_refresh"} =>
             \A f \in DOMAIN q.body : FieldOk(f, q.body[f])
    /\ (Emitted /\ out.op = "PUT"
          /\ \E f \in DOMAIN out.body : ~FieldOk(f, out.body[f]))
       => out.status = 422

\* C4 (requests served one at a time): a POST whose body passes validation
\* is answered 201 with the fields of the body and a positive id that no
\* earlier POST returned.
C4_CreateReturnsFreshId ==
    [][(out'.status # 0 /\ out'.op = "POST" /\ ValidCreate(out'.body)) =>
          /\ out'.status = 201
          /\ \A f \in Fields : out'.resp[f] = CreateDump(out'.body)[f]
          /\ out'.resp.id > 0
          /\ out'.resp.id \notin returned]_vars

\* C5 as stated: a GET, PUT or DELETE that comes after a 204 on its id is
\* answered 404.
C5_DeletedStays404 ==
    (Emitted /\ out.op \in {"GET", "PUT", "DELETE"} /\ out.late) =>
        out.status = 404

\* C5 amended: a GET or DELETE that comes after a 204 on its id is answered
\* 404, and so is a PUT whose body passes validation; a PUT whose body fails
\* validation is answered 422.
C5_DeletedStays404OrInvalid ==
    (Emitted /\ out.op \in {"GET", "PUT", "DELETE"} /\ out.late) =>
        \/ out.status = 404
        \/ out.op = "PUT" /\ ~ValidUpdate(out.body) /\ out.status = 422

C5_Witness ==
    /\ Emitted /\ out.op = "GET" /\ out.late /\ out.status = 404
    /\ DOMAIN db # {}

\* C6 (requests served one at a time): GET /productos returns the stored
\* rows, each once, in strictly ascending id order; as many as there were
\* successful creations when nothing was deleted.
C6_ListAscending ==
    (Emitted /\ out.op = "LIST") =>
        LET s == out.resp IN
        /\ out.status = 200
        /\ \A k \in 1..(Len(s) - 1) : s[k].id < s[k + 1].id
        /\ {s[k] : k \in 1..Len(s)} = {db[i] : i \in DOMAIN db}
        /\ Len(s) = Cardinality(DOMAIN db)
        /\ (deleted = {} => Len(s) = Cardinality(returned))

C6_Witness ==
    /\ Emitted /\ out.op = "LIST" /\ Len(out.resp) = 2
    /\ out.resp[1].id = 1 /\ out.resp[2].id = 2

\* C7 (requests served one at a time): a request answered with an error
\* status (422, 404 or 5xx) has changed no row of the table.
C7_ErrorsChangeNothing ==
    (Emitted /\ out.status >= 400) => ~out.wrote

C7_Witness ==
    /\ Emitted /\ out.op = "POST" /\ out.status = 422
    /\ out.body.precio = JNum(0)
    /\ DOMAIN db # {}

\* C8: a PUT answered 200 has committed, and after its commit every field
\* its body carries was stored with the value of the body (so the last
\* committer of a field decides its value).
C8_LastWriteWins ==
    (Emitted /\ out.op = "PUT" /\ out.status = 200) => out.stored

\* C9: the open sessions are those of the requests in flight: a request that
\* has finished holds none, whatever the status of its response.
C9_SessionReleased ==
    sessions = BagCardinality(reqs)

C9_Witness ==
    /\ Emitted /\ out.status = 500 /\ out.op = "PUT"
    /\ Quiet /\ sessions = 0

\* C10: a DELETE answers 204 only for an id no DELETE answered 204 before
\* and only when it removed the row; a PUT with a valid body that answers
\* when its row is gone answers 404.
C10_AtMostOneDelete ==
    [][/\ (out'.status = 204 /\ out'.op = "DELETE") =>
             (out'.id \notin deleted /\ out'.wrote)
       /\ (out'.status # 0 /\ out'.op = "PUT" /\ ValidUpdate(out'.body)
             /\ out'.id \notin DOMAIN db') => out'.status = 404]_vars
====
